---------------------------- MODULE Spec2Model ----------------------------
(***************************************************************************)
(* Model of sklearnext.tools.imbalanced_analysis: the statistics pipeline  *)
(* calculate_stats -> calculate_optimal_stats -> calculate_optimal_stats_  *)
(* wide -> calculate_ranking -> calculate_friedman_test, and the row       *)
(* ranking function _return_row_ranking.                                   *)
(*                                                                         *)
(* Representation.  A name (dataset, classifier, oversampler, metric) is a *)
(* sequence of one-character strings, so that re.match and the sorted key  *)
(* order of pandas' groupby can be computed.  A number (a score, a mean, a *)
(* rank) is an exact rational [nan, n, d] in lowest terms or NaN.  The     *)
(* column 'Std CV score' is carried as its square (the sample variance):   *)
(* the code only copies and compares it for being null, and the square     *)
(* root is injective.  A data frame is a sequence of rows; row i has the   *)
(* index label i - 1.                                                      *)
(***************************************************************************)
EXTENDS Integers, Sequences, FiniteSets, TLC

VARIABLES experiment, call, args, result

vars == <<experiment, call, args, result>>

(***************************************************************************)
(* Bounds of the model.                                                    *)
(***************************************************************************)
\* rows of the raw results table experiment.results_
MaxResults == 3
\* length of the row handed to _return_row_ranking (second specification)
MaxRowLen == 3
\* values of that row range over -MaxVal .. MaxVal
MaxVal == 2

(***************************************************************************)
(* Numbers.                                                                *)
(***************************************************************************)
Abs(i) == IF i < 0 THEN -i ELSE i

RECURSIVE GCD(_, _)
GCD(a, b) == IF b = 0 THEN a ELSE GCD(b, a % b)

NaN == [nan |-> TRUE, n |-> 0, d |-> 1]

\* the rational n / d (d > 0) in lowest terms
Frac(n, d) ==
    LET g == GCD(Abs(n), d)
    IN  [nan |-> FALSE, n |-> n \div g, d |-> d \div g]

Num(i) == Frac(i, 1)

NumLess(x, y) == x.n * y.d < y.n * x.d

NumAdd(x, y) ==
    IF x.nan \/ y.nan THEN NaN ELSE Frac(x.n * y.d + y.n * x.d, x.d * y.d)

\* sign * x, and also size - x as NumAdd(Num(size), NumMul(-1, x))
NumMul(i, x) == IF x.nan THEN NaN ELSE Frac(i * x.n, x.d)

\* np.abs
NumAbs(x) == IF x.nan THEN NaN ELSE Frac(Abs(x.n), x.d)

RECURSIVE NumSum(_)
NumSum(s) == IF s = <<>> THEN Num(0) ELSE NumAdd(Head(s), NumSum(Tail(s)))

\* mean of a non-empty sequence of non-null numbers
NumMean(s) ==
    LET t == NumSum(s)
    IN  Frac(t.n, t.d * Len(s))

RECURSIVE IntSum(_)
IntSum(s) == IF s = <<>> THEN 0 ELSE Head(s) + IntSum(Tail(s))

SeqSquares(s) == [i \in 1..Len(s) |-> s[i] * s[i]]

\* np.mean of a group of raw integer scores
MeanOf(s) == Frac(IntSum(s), Len(s))

\* np.std of a group as pandas aggregates it (ddof = 1), squared: null for a
\* single score
StdOf(s) ==
    LET k == Len(s)
    IN  IF k < 2 THEN NaN
        ELSE Frac(k * IntSum(SeqSquares(s)) - IntSum(s) * IntSum(s), k * (k - 1))

(***************************************************************************)
(* Names.                                                                  *)
(***************************************************************************)
\* the characters of the names, in ASCII order
Alphabet == <<"1", "2", "_", "a", "b", "c", "d", "m">>

CharRank(ch) == CHOOSE i \in 1..Len(Alphabet) : Alphabet[i] = ch

\* the null of a name column
NullName == <<"NaN">>

RECURSIVE StrLess(_, _)
StrLess(s, t) ==
    IF t = <<>> THEN FALSE
    ELSE IF s = <<>> THEN TRUE
    ELSE IF Head(s) # Head(t) THEN CharRank(Head(s)) < CharRank(Head(t))
    ELSE StrLess(Tail(s), Tail(t))

\* re.match(pattern, string) for a pattern of letters, digits and "_": the
\* pattern is matched from the start of the string
Match(pattern, string) ==
    /\ Len(pattern) <= Len(string)
    /\ \A i \in 1..Len(pattern) : pattern[i] = string[i]

\* the indices of s, in order: a selection of them stands for the rows a
\* boolean mask keeps, with their index labels
Indices(s) == [i \in 1..Len(s) |-> i]

Range(s) == {s[i] : i \in 1..Len(s)}

RECURSIVE SortNames(_)
\* a set of names as the sorted sequence
SortNames(S) ==
    IF S = {} THEN <<>>
    ELSE LET m == CHOOSE x \in S : \A y \in S \ {x} : StrLess(x, y)
         IN  <<m>> \o SortNames(S \ {m})

(***************************************************************************)
(* The experiment: the object the functions read.                          *)
(***************************************************************************)
DatasetsNames == << <<"d", "1">> >>

ClassifiersNames == << <<"c">> >>

ExpandedClassifiersNames == << <<"c", "_", "1">> >>

\* the oversamplers an experiment may declare, (name, size of the parameter
\* grid), in the order they are declared
OversamplersGrids ==
    << [name |-> <<"a">>, grid |-> 2],
       [name |-> <<"a", "b">>, grid |-> 1],
       [name |-> <<"b">>, grid |-> 1] >>

Digits == <<"1", "2">>

\* the expanded names name_1 .. name_grid of one declared oversampler
ExpandOne(o) == [i \in 1..o.grid |-> o.name \o <<"_", Digits[i]>>]

RECURSIVE Expand(_)
Expand(os) == IF os = <<>> THEN <<>> ELSE ExpandOne(Head(os)) \o Expand(Tail(os))

\* the metrics and the scorer registry SCORERS[metric]._sign
M1 == <<"m", "1">>

M2 == <<"m", "2">>

Scorings == { <<M1>>, <<M2>>, <<M1, M2>> }

SCORERS_sign(metric) == IF metric = M1 THEN 1 ELSE -1

\* the raw scores 'CV score' a metric can have: a scorer of sign +1 (such as
\* r2) scores on both sides of 0, a scorer of sign -1 is a negated loss
ScoresOf(metric) == IF SCORERS_sign(metric) = 1 THEN {-1, 1} ELSE {-2, -1}

KeyLess(r, s) ==
    \/ StrLess(r.Dataset, s.Dataset)
    \/ /\ r.Dataset = s.Dataset
       /\ \/ StrLess(r.Classifier, s.Classifier)
          \/ /\ r.Classifier = s.Classifier
             /\ \/ StrLess(r.Oversampler, s.Oversampler)
                \/ /\ r.Oversampler = s.Oversampler
                   /\ StrLess(r.Metric, s.Metric)

SameKey(r, s) ==
    /\ r.Dataset = s.Dataset
    /\ r.Classifier = s.Classifier
    /\ r.Oversampler = s.Oversampler
    /\ r.Metric = s.Metric

RawLess(r, s) == KeyLess(r, s) \/ (SameKey(r, s) /\ r.score < s.score)

\* the rows a results table of the expanded oversamplers eo and the scorers
\* scoring can hold
RawRows(eo, scoring) ==
    { r \in [Dataset : Range(DatasetsNames), Classifier : Range(ExpandedClassifiersNames),
             Oversampler : Range(eo), Metric : Range(scoring), score : -2..1] :
        r.score \in ScoresOf(r.Metric) }

\* the tables shorter, and those of k - 1 rows among them with one more row
Extended(shorter, rows, k) ==
    shorter \cup
    { Append(p[1], p[2]) : p \in
        { q \in shorter \X rows :
            /\ Len(q[1]) = k - 1
            /\ q[1] = <<>> \/ ~RawLess(q[2], q[1][Len(q[1])]) } }

RECURSIVE ResultsTables(_, _)
\* the results tables of at most k rows; the functions group the table by
\* key and aggregate each group by mean and std, which do not depend on the
\* order of the rows, so one order stands for every permutation
ResultsTables(rows, k) ==
    IF k = 0 THEN { <<>> }
    ELSE Extended(ResultsTables(rows, k - 1), rows, k)

\* the non-empty subsequences of the declarable oversamplers
Declared ==
    { [i \in 1..Len(ix) |-> OversamplersGrids[ix[i]]] :
        ix \in { <<1>>, <<2>>, <<3>>, <<1, 2>>, <<1, 3>>, <<2, 3>>, <<1, 2, 3>> } }

Experiments ==
    UNION { UNION { { [datasets_names_ |-> DatasetsNames,
                       classifiers |-> ClassifiersNames,
                       classifiers_ |-> ExpandedClassifiersNames,
                       oversamplers |-> [i \in 1..Len(os) |-> os[i].name],
                       oversamplers_ |-> Expand(os),
                       scoring |-> sc,
                       results_ |-> t] :
                      t \in ResultsTables(RawRows(Expand(os), sc), MaxResults) \ { <<>> } } :
                    sc \in Scorings } :
            os \in Declared }

(***************************************************************************)
(* _calculate_stats and calculate_stats.                                   *)
(***************************************************************************)
RECURSIVE SortKeys(_)
\* the group keys, sorted as groupby sorts them
SortKeys(S) ==
    IF S = {} THEN <<>>
    ELSE LET m == CHOOSE x \in S : \A y \in S \ {x} : KeyLess(x, y)
         IN  <<m>> \o SortKeys(S \ {m})

KeyOf(r) ==
    [Dataset |-> r.Dataset, Classifier |-> r.Classifier,
     Oversampler |-> r.Oversampler, Metric |-> r.Metric]

\* the 'CV score' of the rows idx of the results table
ScoresAt(results, idx) == [i \in 1..Len(idx) |-> results[idx[i]].score]

\* the scores of the raw rows of one key
GroupScores(results, key) ==
    ScoresAt(results, SelectSeq(Indices(results), LAMBDA i : KeyOf(results[i]) = key))

\* .agg({'CV score': [np.mean, np.std]}) over the groups of the sorted keys
AggMeanStd(results, keys) ==
    [i \in 1..Len(keys) |->
        [Dataset |-> keys[i].Dataset, Classifier |-> keys[i].Classifier,
         Oversampler |-> keys[i].Oversampler, Metric |-> keys[i].Metric,
         Mean |-> MeanOf(GroupScores(results, keys[i])),
         Std |-> StdOf(GroupScores(results, keys[i]))]]

\* groupby(all columns but 'CV score', as_index=False).agg([np.mean, np.std])
_calculate_stats(e) ==
    AggMeanStd(e.results_, SortKeys({ KeyOf(e.results_[i]) : i \in 1..Len(e.results_) }))

\* frame['Mean CV score'] = np.abs(frame['Mean CV score'])
AbsMean(frame) == [i \in 1..Len(frame) |-> [frame[i] EXCEPT !.Mean = NumAbs(@)]]

\* calculate_stats without the np.abs of its last statement
calculate_stats_signed(e) == _calculate_stats(e)

calculate_stats(e) == AbsMean(_calculate_stats(e))

(***************************************************************************)
(* calculate_optimal_stats (return_optimal_params=False).                  *)
(***************************************************************************)
\* product(experiment.datasets_names_, clfs_names, oversamplers_names)
Cells(e) ==
    [k \in 1..(Len(e.datasets_names_) * Len(e.classifiers) * Len(e.oversamplers)) |->
        [Dataset |-> e.datasets_names_[((k - 1) \div (Len(e.classifiers) * Len(e.oversamplers))) + 1],
         Classifier |-> e.classifiers[(((k - 1) \div Len(e.oversamplers)) % Len(e.classifiers)) + 1],
         Oversampler |-> e.oversamplers[((k - 1) % Len(e.oversamplers)) + 1]]]

\* the expanded names a declared name matches
MatchedNames(name, expanded) ==
    { expanded[i] : i \in { j \in 1..Len(expanded) : Match(name, expanded[j]) } }

\* stats[is_matched_clfs & is_matched_oversamplers & is_matched_dataset]: the
\* rows of stats kept, by their index in stats
MatchedStats(e, stats, cell) ==
    SelectSeq(Indices(stats), LAMBDA i :
        /\ stats[i].Classifier \in MatchedNames(cell.Classifier, e.classifiers_)
        /\ stats[i].Oversampler \in MatchedNames(cell.Oversampler, e.oversamplers_)
        /\ stats[i].Dataset = cell.Dataset)

\* max of the 'Mean CV score' of the rows idx of stats
MaxMean(stats, idx) ==
    stats[CHOOSE i \in Range(idx) :
              \A j \in Range(idx) : ~NumLess(stats[i].Mean, stats[j].Mean)].Mean

\* an argmax that returns the last row holding the maximum
ArgMaxLast(stats, idx) ==
    idx[CHOOSE k \in 1..Len(idx) :
            /\ stats[idx[k]].Mean = MaxMean(stats, idx)
            /\ \A l \in (k + 1)..Len(idx) : stats[idx[l]].Mean # MaxMean(stats, idx)]

\* np.argmax(col) of a group of a pandas Series: the index label of the first
\* row of the group that holds the maximum
ArgMax(stats, idx) ==
    idx[CHOOSE k \in 1..Len(idx) :
            /\ stats[idx[k]].Mean = MaxMean(stats, idx)
            /\ \A l \in 1..(k - 1) : stats[idx[l]].Mean # MaxMean(stats, idx)]

\* the aggregate of one group: [max, lambda col: matched_stats['Std CV
\* score'][np.argmax(col)]]
AggMaxStd(stats, group, metric) ==
    [Metric |-> metric,
     Mean |-> MaxMean(stats, group),
     Std |-> stats[ArgMax(stats, group)].Std]

\* the groups of matched_stats.groupby('Metric', as_index=False), aggregated
AggGroups(stats, matched, metrics) ==
    [k \in 1..Len(metrics) |->
        AggMaxStd(stats, SelectSeq(matched, LAMBDA i : stats[i].Metric = metrics[k]),
                  metrics[k])]

\* matched_stats.groupby('Metric', as_index=False).agg({'Mean CV score':
\* [max, lambda col: matched_stats['Std CV score'][np.argmax(col)]]})
OptimalMatchedStats(stats, matched) ==
    AggGroups(stats, matched,
              SortNames({ stats[matched[i]].Metric : i \in 1..Len(matched) }))

Max(a, b) == IF a > b THEN a ELSE b

\* pd.concat([optimal_matched_names, optimal_matched_stats], axis=1): the rows
\* are joined on their index labels and a frame that lacks a label gives nulls;
\* optimal_matched_names has len(experiment.scoring) rows
ConcatNamesStats(e, cell, mstats) ==
    [k \in 1..Max(Len(e.scoring), Len(mstats)) |->
        [Dataset |-> IF k <= Len(e.scoring) THEN cell.Dataset ELSE NullName,
         Classifier |-> IF k <= Len(e.scoring) THEN cell.Classifier ELSE NullName,
         Oversampler |-> IF k <= Len(e.scoring) THEN cell.Oversampler ELSE NullName,
         Metric |-> IF k <= Len(mstats) THEN mstats[k].Metric ELSE NullName,
         Mean |-> IF k <= Len(mstats) THEN mstats[k].Mean ELSE NaN,
         Std |-> IF k <= Len(mstats) THEN mstats[k].Std ELSE NaN]]

\* the rows one cell appends to optimal_stats
CellRows(e, stats, cell) ==
    ConcatNamesStats(e, cell, OptimalMatchedStats(stats, MatchedStats(e, stats, cell)))

RECURSIVE AppendCells(_, _, _)
AppendCells(e, stats, cells) ==
    IF cells = <<>> THEN <<>>
    ELSE CellRows(e, stats, Head(cells)) \o AppendCells(e, stats, Tail(cells))

calculate_optimal_stats(e) == AbsMean(AppendCells(e, _calculate_stats(e), Cells(e)))

(***************************************************************************)
(* calculate_optimal_stats_wide.                                           *)
(***************************************************************************)
IndexLess(r, s) ==
    \/ StrLess(r.Dataset, s.Dataset)
    \/ /\ r.Dataset = s.Dataset
       /\ \/ StrLess(r.Classifier, s.Classifier)
          \/ /\ r.Classifier = s.Classifier
             /\ StrLess(r.Metric, s.Metric)

RECURSIVE SortIndex(_)
SortIndex(S) ==
    IF S = {} THEN <<>>
    ELSE LET m == CHOOSE x \in S : \A y \in S \ {x} : IndexLess(x, y)
         IN  <<m>> \o SortIndex(S \ {m})

IndexOf(r) == [Dataset |-> r.Dataset, Classifier |-> r.Classifier, Metric |-> r.Metric]

\* the mean of a sequence of non-null values, null when it is empty
MeanOrNaN(values) == IF values = <<>> THEN NaN ELSE NumMean(values)

\* the mean of the non-null values of a sequence, null when there is none
MeanSkipNa(values) == MeanOrNaN(SelectSeq(values, LAMBDA x : ~x.nan))

ColumnOf(rows, column) == [i \in 1..Len(rows) |-> rows[i][column]]

\* the aggregate (mean) of the group (ix, o) of the keyed rows
GroupMean(keyed, ix, o, column) ==
    MeanSkipNa(ColumnOf(SelectSeq(keyed, LAMBDA r : IndexOf(r) = ix /\ r.Oversampler = o),
                        column))

\* the rows whose four keys are set: groupby leaves a row with a null key out
Keyed(optimal_stats) ==
    SelectSeq(optimal_stats, LAMBDA r :
        /\ r.Dataset # NullName
        /\ r.Classifier # NullName
        /\ r.Metric # NullName
        /\ r.Oversampler # NullName)

\* the rows of the groups that dropna=True keeps: those whose value is set
Kept(keyed, column) ==
    SelectSeq(keyed, LAMBDA r : ~GroupMean(keyed, IndexOf(r), r.Oversampler, column).nan)

\* the unstacked table over the row keys index and the columns columns
Unstacked(keyed, column, index, columns) ==
    [index |-> index,
     columns |-> columns,
     values |-> [i \in 1..Len(index) |-> [j \in 1..Len(columns) |->
                    GroupMean(keyed, index[i], columns[j], column)]]]

UnstackKept(keyed, column, kept) ==
    Unstacked(keyed, column,
              SortIndex({ IndexOf(kept[i]) : i \in 1..Len(kept) }),
              SortNames({ kept[i].Oversampler : i \in 1..Len(kept) }))

PivotKeyed(keyed, column) == UnstackKept(keyed, column, Kept(keyed, column))

\* optimal_stats.pivot_table(index=['Dataset', 'Classifier', 'Metric'],
\* columns=['Oversampler'], values=column).reset_index(): the rows are grouped
\* by the four keys (a row with a null key is in no group), each group is
\* averaged, the groups whose value is null are dropped (dropna=True), and
\* what is left is unstacked
pivot_table(optimal_stats, column) == PivotKeyed(Keyed(optimal_stats), column)

Position(s, x) == CHOOSE i \in 1..Len(s) : s[i] = x

\* what the loop body optimal_stats_wide[name] = list(zip(optimal_stats_wide[
\* name], optimal_std_wide[name])) raises for one oversampler: KeyError for a
\* column one of the tables lacks, ValueError for a list shorter than the frame
ZipError(mean_wide, std_wide, name) ==
    IF name \notin Range(mean_wide.columns) \/ name \notin Range(std_wide.columns)
    THEN "KeyError"
    ELSE IF Len(std_wide.index) # Len(mean_wide.index) THEN "ValueError"
    ELSE "ok"

\* the wide table after the loop over oversamplers_names has run through
ZipColumns(mean_wide, std_wide, names) ==
    [i \in 1..Len(mean_wide.index) |-> [j \in 1..Len(mean_wide.columns) |->
        IF mean_wide.columns[j] \in Range(names)
        THEN [Mean |-> mean_wide.values[i][j],
              Std |-> std_wide.values[i][Position(std_wide.columns, mean_wide.columns[j])]]
        ELSE mean_wide.values[i][j]]]

Raised(error) == [status |-> error, index |-> <<>>, columns |-> <<>>, values |-> <<>>]

Returned(index, columns, values) ==
    [status |-> "ok", index |-> index, columns |-> columns, values |-> values]

\* the loop over oversamplers_names: the first name that raises ends it
ZipLoop(mean_wide, std_wide, names, failing) ==
    IF failing # <<>>
    THEN Raised(ZipError(mean_wide, std_wide, failing[1]))
    ELSE Returned(mean_wide.index, mean_wide.columns, ZipColumns(mean_wide, std_wide, names))

WideOfPivots(e, append_std, mean_wide, std_wide) ==
    IF ~append_std
    THEN Returned(mean_wide.index, mean_wide.columns, mean_wide.values)
    ELSE ZipLoop(mean_wide, std_wide, e.oversamplers,
                 SelectSeq(e.oversamplers, LAMBDA name :
                     ZipError(mean_wide, std_wide, name) # "ok"))

WideOfOptimal(e, append_std, optimal_stats) ==
    WideOfPivots(e, append_std, pivot_table(optimal_stats, "Mean"),
                 pivot_table(optimal_stats, "Std"))

calculate_optimal_stats_wide(e, append_std) ==
    WideOfOptimal(e, append_std, calculate_optimal_stats(e))

(***************************************************************************)
(* _return_row_ranking and calculate_ranking.                              *)
(***************************************************************************)
\* the results np.argsort may give for the values c: the indices of c in
\* ascending order of value, equal values in either order
Argsorts(c) ==
    { p \in Permutations(1..Len(c)) :
        \A i, j \in 1..Len(c) : i < j => ~NumLess(c[p[j]], c[p[i]]) }

\* the argsort that keeps equal values in their order of index
StableArgsort(c) ==
    CHOOSE p \in Argsorts(c) :
        \A i, j \in 1..Len(c) : (i < j /\ c[p[i]] = c[p[j]]) => p[i] < p[j]

Signed(row, sign) == [i \in 1..Len(row) |-> NumMul(sign, row[i])]

NonNull(v) == SelectSeq(v, LAMBDA x : ~x.nan)

\* the argsort order of the non-null values, put at their places in v, and
\* -1 at the place of a null (0-based, as numbers)
PlaceOrder(v, order, nonnull) ==
    [i \in 1..Len(v) |->
        IF v[i].nan THEN Num(-1) ELSE Num(order[Position(nonnull, i)] - 1)]

\* Series.argsort, order being the argsort of the non-null values
SeriesArgsort(v, order) ==
    PlaceOrder(v, order, SelectSeq(Indices(v), LAMBDA i : ~v[i].nan))

\* an argsort result as 0-based numbers
ZeroBased(order) == [i \in 1..Len(order) |-> Num(order[i] - 1)]

\* (sign * row).argsort().argsort().astype(float)
ArgsortArgsort(row, sign, order) ==
    ZeroBased(StableArgsort(SeriesArgsort(Signed(row, sign), order)))

\* the indices at which np.unique(row, return_inverse=True)[1] has the label
\* of index i: those of the values equal to row[i]; a null equals nothing
GroupOf(row, i) ==
    SelectSeq(Indices(row), LAMBDA j : ~row[j].nan /\ ~row[i].nan /\ row[j] = row[i]) \o
        (IF row[i].nan THEN <<i>> ELSE <<>>)

ValuesAt(ranking, idx) == [k \in 1..Len(idx) |-> ranking[idx[k]]]

\* ranking[indices] = ranking[indices].mean(), for every group
AverageGroups(row, ranking) ==
    [i \in 1..Len(row) |-> NumMean(ValuesAt(ranking, GroupOf(row, i)))]

\* the largest of a non-empty sequence of numbers
NumMax(s) == CHOOSE x \in Range(s) : \A y \in Range(s) : ~NumLess(x, y)

\* every group given the largest position of its members
MaxOfGroups(row, ranking) ==
    [i \in 1..Len(row) |-> NumMax(ValuesAt(ranking, GroupOf(row, i)))]

\* ranking.size - ranking
SizeMinus(ranking) ==
    [i \in 1..Len(ranking) |-> NumAdd(Num(Len(ranking)), NumMul(-1, ranking[i]))]

\* a ranking that gives tied values the best rank of their group instead of
\* the group's average
RowRankingMaxTies(row, sign, order) ==
    SizeMinus(MaxOfGroups(row, ArgsortArgsort(row, sign, order)))

\* a ranking that ignores the sign: the largest value is always ranked 1
RowRankingNoSign(row, sign, order) ==
    SizeMinus(AverageGroups(row, ArgsortArgsort(row, 1, StableArgsort(NonNull(row)))))

\* _return_row_ranking, order being what the first argsort gives for the
\* non-null values of sign * row
RowRanking(row, sign, order) ==
    SizeMinus(AverageGroups(row, ArgsortArgsort(row, sign, order)))

_return_row_ranking(row, sign) ==
    RowRanking(row, sign, StableArgsort(NonNull(Signed(row, sign))))

\* optimal_stats_wide.apply(lambda row: _return_row_ranking(row[3:],
\* SCORERS[row[2]]._sign), axis=1) beside the three key columns
RankRows(wide) ==
    Returned(wide.index, wide.columns,
             [i \in 1..Len(wide.index) |->
                 _return_row_ranking(wide.values[i], SCORERS_sign(wide.index[i].Metric))])

calculate_ranking(e) == RankRows(calculate_optimal_stats_wide(e, FALSE))

(***************************************************************************)
(* calculate_friedman_test.                                                *)
(***************************************************************************)
ClassifierMetricLess(r, s) ==
    \/ StrLess(r.Classifier, s.Classifier)
    \/ r.Classifier = s.Classifier /\ StrLess(r.Metric, s.Metric)

RECURSIVE SortClassifierMetric(_)
SortClassifierMetric(S) ==
    IF S = {} THEN <<>>
    ELSE LET m == CHOOSE x \in S : \A y \in S \ {x} : ClassifierMetricLess(x, y)
         IN  <<m>> \o SortClassifierMetric(S \ {m})

\* ranking.groupby(['Classifier', 'Metric']).apply(extract_pvalue): one row
\* per group; friedmanchisquare raises ValueError when it is handed fewer
\* than 3 columns, and its p-value is not computed here
FriedmanOfRanking(ranking) ==
    IF ranking.index # <<>> /\ Len(ranking.columns) < 3
    THEN [status |-> "ValueError", raised_by |-> "friedmanchisquare",
          ranked |-> TRUE, rows |-> <<>>]
    ELSE [status |-> "ok", raised_by |-> "none", ranked |-> TRUE,
          rows |-> SortClassifierMetric(
              { [Classifier |-> ranking.index[i].Classifier,
                 Metric |-> ranking.index[i].Metric] : i \in 1..Len(ranking.index) })]

\* the guard on the number of oversamplers, then the test on the ranking
calculate_friedman_test(e) ==
    IF Len(e.oversamplers_) < 3
    THEN [status |-> "ValueError", raised_by |-> "guard", ranked |-> FALSE, rows |-> <<>>]
    ELSE FriedmanOfRanking(calculate_ranking(e))

(***************************************************************************)
(* The state machine: an experiment, and the functions called on it.       *)
(***************************************************************************)
Init ==
    /\ experiment \in Experiments
    /\ call = "none"
    /\ args = <<>>
    /\ result = <<>>

CalculateStats ==
    /\ call = "none"
    /\ call' = "calculate_stats"
    /\ args' = <<>>
    /\ result' = calculate_stats(experiment)
    /\ UNCHANGED experiment

CalculateOptimalStats ==
    /\ call = "none"
    /\ call' = "calculate_optimal_stats"
    /\ args' = <<>>
    /\ result' = calculate_optimal_stats(experiment)
    /\ UNCHANGED experiment

CalculateOptimalStatsWide ==
    \E append_std \in BOOLEAN :
        /\ call = "none"
        /\ call' = "calculate_optimal_stats_wide"
        /\ args' = <<append_std>>
        /\ result' = calculate_optimal_stats_wide(experiment, append_std)
        /\ UNCHANGED experiment

CalculateRanking ==
    /\ call = "none"
    /\ call' = "calculate_ranking"
    /\ args' = <<>>
    /\ result' = calculate_ranking(experiment)
    /\ UNCHANGED experiment

CalculateFriedmanTest ==
    /\ call = "none"
    /\ call' = "calculate_friedman_test"
    /\ args' = <<>>
    /\ result' = calculate_friedman_test(experiment)
    /\ UNCHANGED experiment

\* the call returns to the caller: the pipeline is synchronous and
\* single-threaded, one call is in progress at a time
Return ==
    /\ call # "none"
    /\ call' = "none"
    /\ args' = <<>>
    /\ result' = <<>>
    /\ UNCHANGED experiment

Next ==
    \/ CalculateStats
    \/ CalculateOptimalStats
    \/ CalculateOptimalStatsWide
    \/ CalculateRanking
    \/ CalculateFriedmanTest
    \/ Return

Spec == Init /\ [][Next]_vars

(***************************************************************************)
(* Second specification: _return_row_ranking on its own, on every row of   *)
(* 1 to MaxRowLen non-null values, either sign, and every order np.argsort *)
(* may give to equal values.                                               *)
(***************************************************************************)
InitRank ==
    /\ experiment = <<>>
    /\ call = "none"
    /\ args = <<>>
    /\ result = <<>>

ReturnRowRanking ==
    \E k \in 1..MaxRowLen :
        \E values \in [1..k -> (-MaxVal)..MaxVal], sign \in {1, -1} :
            LET row == [i \in 1..k |-> Num(values[i])]
            IN  \E order \in Argsorts([i \in 1..k |-> NumMul(sign, row[i])]) :
                    /\ call = "none"
                    /\ call' = "_return_row_ranking"
                    /\ args' = <<row, sign>>
                    /\ result' = RowRanking(row, sign, order)
                    /\ UNCHANGED experiment

NextRank ==
    \/ ReturnRowRanking
    \/ Return

SpecRank == InitRank /\ [][NextRank]_vars

(***************************************************************************)
(* The claims.                                                             *)
(***************************************************************************)
\* the indices of the rows of the stats table that the cell (d, c, o) matches
\* and whose metric is m
CellGroup(stats, d, c, o, m) ==
    { i \in 1..Len(stats) :
        /\ stats[i].Dataset = d
        /\ Match(c, stats[i].Classifier)
        /\ Match(o, stats[i].Oversampler)
        /\ stats[i].Metric = m }

\* the first row, in the order of the stats table, that holds the maximal
\* signed mean of a non-empty group
FirstBest(stats, G) ==
    CHOOSE i \in G : \A j \in G :
        /\ ~NumLess(stats[i].Mean, stats[j].Mean)
        /\ stats[j].Mean = stats[i].Mean => i <= j

MetricsOf(stats) == { stats[i].Metric : i \in 1..Len(stats) }

\* C1: calculate_optimal_stats emits, for every cell and every metric among
\* the cell's matched rows, a row whose mean is the absolute value of the
\* maximal signed mean and whose std is that of the first row holding it.
C1_OptimalIsFirstMax ==
    call = "calculate_optimal_stats" =>
        LET stats == _calculate_stats(experiment)
        IN  \A d \in Range(experiment.datasets_names_), c \in Range(experiment.classifiers),
               o \in Range(experiment.oversamplers), m \in MetricsOf(stats) :
                LET G == CellGroup(stats, d, c, o, m)
                IN  G # {} =>
                        \E k \in 1..Len(result) :
                            /\ result[k].Dataset = d
                            /\ result[k].Classifier = c
                            /\ result[k].Oversampler = o
                            /\ result[k].Metric = m
                            /\ result[k].Mean = NumAbs(stats[FirstBest(stats, G)].Mean)
                            /\ result[k].Std = stats[FirstBest(stats, G)].Std

\* C1 witness: an optimal stats table for a cell in which two matched rows
\* share the maximal mean and differ in std.
C1_Witness ==
    /\ call = "calculate_optimal_stats"
    /\ LET stats == _calculate_stats(experiment)
       IN  \E o \in Range(experiment.oversamplers), m \in MetricsOf(stats) :
               LET G == CellGroup(stats, experiment.datasets_names_[1],
                                  experiment.classifiers[1], o, m)
               IN  \E i, j \in G :
                       /\ i < j
                       /\ i = FirstBest(stats, G)
                       /\ stats[j].Mean = stats[i].Mean
                       /\ stats[j].Std # stats[i].Std
                       /\ stats[i].Mean.n < 0

\* C2: the ranks _return_row_ranking returns for a row of k non-null values
\* sum to k*(k+1)/2, and every rank lies in 1..k.
C2_RankSum ==
    call = "_return_row_ranking" =>
        LET k == Len(args[1])
        IN  /\ Len(result) = k
            /\ NumSum(result) = Frac(k * (k + 1), 2)
            /\ \A i \in 1..k : ~NumLess(result[i], Num(1)) /\ ~NumLess(Num(k), result[i])

\* C2 witness: the ranking of an all-equal row of three values, sign -1.
C2_Witness ==
    /\ call = "_return_row_ranking"
    /\ Len(args[1]) = 3
    /\ args[2] = -1
    /\ args[1][1] = args[1][2]
    /\ args[1][2] = args[1][3]

\* C3: _return_row_ranking is fractional ranking with 1 = best: an entry with
\* b entries strictly better under sign * value and t entries equal to it
\* (itself included) has the rank b + (t + 1) / 2, so a better entry has a
\* smaller rank and equal entries have equal ranks.
C3_FractionalRanking ==
    call = "_return_row_ranking" =>
        LET row == args[1]
            sign == args[2]
            k == Len(row)
            Better(i) == { j \in 1..k : sign * row[j].n > sign * row[i].n }
            Tied(i) == { j \in 1..k : row[j] = row[i] }
        IN  /\ \A i \in 1..k :
                    result[i] = Frac(2 * Cardinality(Better(i)) + Cardinality(Tied(i)) + 1, 2)
            /\ \A i, j \in 1..k :
                    /\ sign * row[i].n > sign * row[j].n => NumLess(result[i], result[j])
                    /\ row[i] = row[j] => result[i] = result[j]

\* C3 witness: a row of three values with a tie of two that beats the third,
\* ranked 1.5, 1.5, 3.
C3_Witness ==
    /\ call = "_return_row_ranking"
    /\ Len(args[1]) = 3
    /\ args[2] = 1
    /\ args[1][1] = args[1][2]
    /\ NumLess(args[1][3], args[1][1])
    /\ result = <<Frac(3, 2), Frac(3, 2), Num(3)>>

\* C4: calculate_friedman_test raises from its guard, before any ranking is
\* computed, whenever fewer than 3 oversamplers are declared, whatever the
\* number of expanded configurations; with 3 or more declared the guard does
\* not fire.
C4_FriedmanGuardCountsFamilies ==
    call = "calculate_friedman_test" =>
        /\ Len(experiment.oversamplers) < 3 =>
               /\ result.status = "ValueError"
               /\ result.raised_by = "guard"
               /\ ~result.ranked
        /\ Len(experiment.oversamplers) >= 3 => result.raised_by # "guard"

\* the sum of the raw scores of the rows of results_ with the key of row r
RawKeyRows(r) ==
    { i \in 1..Len(experiment.results_) : KeyOf(experiment.results_[i]) = KeyOf(r) }

RECURSIVE RawSum(_)
RawSum(S) ==
    IF S = {} THEN 0
    ELSE LET i == CHOOSE i \in S : TRUE
         IN  experiment.results_[i].score + RawSum(S \ {i})

\* exactly one row of the stats table per key of the raw results table
OneRowPerKey ==
    /\ \A i \in 1..Len(experiment.results_) :
           Cardinality({ k \in 1..Len(result) :
               KeyOf(result[k]) = KeyOf(experiment.results_[i]) }) = 1
    /\ \A k \in 1..Len(result) : RawKeyRows(result[k]) # {}

C6_OneRowPerMatchedMetric ==
    call = "calculate_optimal_stats" =>
        LET stats == _calculate_stats(experiment)
        IN  /\ \A k \in 1..Len(result) : result[k].Metric # NullName
            /\ \A d \in Range(experiment.datasets_names_), c \in Range(experiment.classifiers),
                  o \in Range(experiment.oversamplers) :
                   Cardinality({ k \in 1..Len(result) :
                       /\ result[k].Dataset = d
                       /\ result[k].Classifier = c
                       /\ result[k].Oversampler = o }) =
                   Cardinality({ m \in MetricsOf(stats) : CellGroup(stats, d, c, o, m) # {} })

\* C7: the wide table has a column for every declared oversampler, one
\* without any matching optimal row included, and the call does not fail
\* (stated where no std is null when append_std=True pairs means with stds).
C7_WideHasEveryFamily ==
    call = "calculate_optimal_stats_wide" =>
        LET stats == _calculate_stats(experiment)
        IN  (args = <<FALSE>> \/ \A i \in 1..Len(stats) : ~stats[i].Std.nan) =>
                /\ result.status = "ok"
                /\ \A o \in Range(experiment.oversamplers) : o \in Range(result.columns)

\* C8: every row of the stats table is matched by the cell of exactly one
\* declared classifier and one declared oversampler.
C8_MatchedByOneFamily ==
    call = "calculate_optimal_stats" =>
        LET stats == _calculate_stats(experiment)
        IN  \A i \in 1..Len(stats) :
                Cardinality({ k \in 1..Len(Cells(experiment)) :
                    i \in Range(MatchedStats(experiment, stats, Cells(experiment)[k])) }) = 1

\* the value of a column of the optimal row (ix, o), null when there is none
OptimalValue(optimal_stats, ix, o, column) ==
    LET rows == SelectSeq(optimal_stats, LAMBDA r : IndexOf(r) = ix /\ r.Oversampler = o)
    IN  IF rows = <<>> THEN NaN ELSE rows[1][column]

\* C9: with append_std=True every cell of the wide table pairs the mean and
\* the std of the same optimal row, also when some std is null (stated for
\* experiments in which every declared oversampler has a matching row).
C9_WidePairsSameRow ==
    (call = "calculate_optimal_stats_wide" /\ args = <<TRUE>>) =>
        LET stats == _calculate_stats(experiment)
            optimal_stats == calculate_optimal_stats(experiment)
        IN  (\A o \in Range(experiment.oversamplers) : \E m \in MetricsOf(stats) :
                 CellGroup(stats, experiment.datasets_names_[1],
                           experiment.classifiers[1], o, m) # {}) =>
                /\ result.status = "ok"
                /\ \A i \in 1..Len(result.index), j \in 1..Len(result.columns) :
                       result.values[i][j] =
                           [Mean |-> OptimalValue(optimal_stats, result.index[i],
                                                  result.columns[j], "Mean"),
                            Std |-> OptimalValue(optimal_stats, result.index[i],
                                                 result.columns[j], "Std")]

\* C10: in every row of the ranking, a method whose best signed mean score is
\* strictly greater than another's has the strictly smaller rank.
C10_RankingFollowsSignedBest ==
    call = "calculate_ranking" =>
        LET stats == _calculate_stats(experiment)
            Best(ix, o) ==
                stats[FirstBest(stats, CellGroup(stats, ix.Dataset, ix.Classifier, o, ix.Metric))].Mean
        IN  \A i \in 1..Len(result.index), a, b \in 1..Len(result.columns) :
                LET ix == result.index[i]
                    A == result.columns[a]
                    B == result.columns[b]
                IN  ( /\ CellGroup(stats, ix.Dataset, ix.Classifier, A, ix.Metric) # {}
                      /\ CellGroup(stats, ix.Dataset, ix.Classifier, B, ix.Metric) # {}
                      /\ NumLess(Best(ix, B), Best(ix, A)) )
                    => NumLess(result.values[i][a], result.values[i][b])

=============================================================================
